---- MODULE Spec2Model ----
(***************************************************************************)
(* The lexer of lin-bootstrap (src/src/lexer.rs): a Lexer owns a forward   *)
(* only, one character look-ahead cursor over its text; tokenize walks it  *)
(* and returns the token vector or the first LexerError.                   *)
(*                                                                         *)
(* A char is modelled by a string that names it (itself when printable,    *)
(* "U+00A0" for the no-break space), a Rust String by the sequence of its  *)
(* chars.  An i64 is a sign and a magnitude written as its decimal digits  *)
(* (most significant first, no leading zero, <<>> for 0), so the 64-bit    *)
(* limits are exact.  An f64 is the decimal it                             *)
(* was parsed from, normalised (integer digits without leading zeros,      *)
(* fraction digits without trailing zeros): two literals of at most 15     *)
(* significant digits denote the same f64 iff they normalise alike.  The   *)
(* texts with a '.' that Init draws hold no 'e'/'E' and stay below 15      *)
(* digits, so exponents and rounding never arise in ParseF64.              *)
(***************************************************************************)
EXTENDS Integers, Sequences, FiniteSets, TLC

VARIABLES
    input,        \* the &str handed to Lexer::new
    pos,          \* Lexer.text: number of chars the Peekable<Chars> has yielded
    calls,        \* number of tokenize calls made on this Lexer so far
    pc,           \* where control is: "idle" (outside tokenize), "tokenize",
                  \* "make_number", "make_string", "make_symbol"
    tokens,       \* tokenize: let mut tokens
    num_str,      \* make_number: let mut num_str
    has_dot,      \* make_number: let mut has_dot
    str,          \* make_string: let mut str
    symbol_name,  \* make_symbol: let mut symbol_name
    entry_char,   \* make_symbol: its argument, <<>> for None, <<ch>> for Some(ch)
    result        \* what the last tokenize call returned

vars == <<input, pos, calls, pc, tokens, num_str, has_dot, str, symbol_name,
          entry_char, result>>

-----------------------------------------------------------------------------
(* Bounds *)

MaxLen == 3
MaxCalls == 2
MaxTokens == 2

-----------------------------------------------------------------------------
(* Characters *)

LEGAL_EXIT_CHARS == {"}"}
RESERVED_CHARS_NoBrace == {"'"}
RESERVED_CHARS_NoApostrophe == {"{"}
RESERVED_CHARS == {"'", "{"}

NonAsciiChars == {"é", "U+00A0"}

AsciiWhitespace == {" ", "\t", "\n", "\f", "\r"}

DecimalDigits == {"0", "1", "2", "3", "4", "5", "6", "7", "8", "9"}

is_ascii_whitespace(ch) == ch \in AsciiWhitespace

is_digit(ch) == ch \in DecimalDigits

is_ascii(ch) == ch \notin NonAsciiChars

Alphabet == {" ", "0", "1", ".", "'", "\"", "{", "}", "a", "-", "é", "U+00A0"}

CoreAlphabet == {" ", "1", ".", "'", "\"", "}", "a", "é"}

-----------------------------------------------------------------------------
(* Sequence helpers *)

RECURSIVE StripLeadingZeros(_)
StripLeadingZeros(ds) ==
    IF ds # <<>> /\ Head(ds) = 0 THEN StripLeadingZeros(Tail(ds)) ELSE ds

RECURSIVE StripTrailingZeros(_)
StripTrailingZeros(ds) ==
    IF ds # <<>> /\ ds[Len(ds)] = 0
    THEN StripTrailingZeros(SubSeq(ds, 1, Len(ds) - 1))
    ELSE ds

\* Position of the first occurrence of ch in s, Len(s) + 1 when there is none.
RECURSIVE IndexOf(_, _, _)
IndexOf(s, ch, i) ==
    IF i > Len(s) THEN i
    ELSE IF s[i] = ch THEN i
    ELSE IndexOf(s, ch, i + 1)

-----------------------------------------------------------------------------
(* Numbers: str::parse::<i64> and str::parse::<f64> as make_number uses them *)

DigitValue(ch) ==
    CASE ch = "0" -> 0 [] ch = "1" -> 1 [] ch = "2" -> 2 [] ch = "3" -> 3
      [] ch = "4" -> 4 [] ch = "5" -> 5 [] ch = "6" -> 6 [] ch = "7" -> 7
      [] ch = "8" -> 8 [] ch = "9" -> 9

\* i64::MAX = 9223372036854775807 and the magnitude of i64::MIN
I64MaxMag == <<9, 2, 2, 3, 3, 7, 2, 0, 3, 6, 8, 5, 4, 7, 7, 5, 8, 0, 7>>
I64MinMag == <<9, 2, 2, 3, 3, 7, 2, 0, 3, 6, 8, 5, 4, 7, 7, 5, 8, 0, 8>>

\* a <= b for magnitudes without leading zeros
RECURSIVE MagLeq(_, _)
MagLeq(a, b) ==
    IF Len(a) # Len(b) THEN Len(a) < Len(b)
    ELSE IF a = <<>> THEN TRUE
    ELSE IF Head(a) # Head(b) THEN Head(a) < Head(b)
    ELSE MagLeq(Tail(a), Tail(b))

AllDigits(s) == \A i \in 1..Len(s) : is_digit(s[i])

DigitValues(s) == [i \in 1..Len(s) |-> DigitValue(s[i])]

ParseOk(v) == [ok |-> TRUE, value |-> v]
ParseErr == [ok |-> FALSE]

\* ParseI64 with the overflow test off by one: i64::MAX itself is refused
ParseI64_StrictLimit(s) ==
    LET signed == s # <<>> /\ Head(s) \in {"+", "-"}
        neg    == s # <<>> /\ Head(s) = "-"
        body   == IF signed THEN Tail(s) ELSE s
        mag    == StripLeadingZeros(DigitValues(body))
    IN  IF body = <<>> \/ ~AllDigits(body) THEN ParseErr
        ELSE IF MagLeq(IF neg THEN I64MinMag ELSE I64MaxMag, mag) THEN ParseErr
        ELSE ParseOk([neg |-> neg /\ mag # <<>>, mag |-> mag])

\* ParseI64 that saturates at the limits instead of failing
ParseI64_Saturating(s) ==
    LET signed == s # <<>> /\ Head(s) \in {"+", "-"}
        neg    == s # <<>> /\ Head(s) = "-"
        body   == IF signed THEN Tail(s) ELSE s
        mag    == StripLeadingZeros(DigitValues(body))
        limit  == IF neg THEN I64MinMag ELSE I64MaxMag
    IN  IF body = <<>> \/ ~AllDigits(body) THEN ParseErr
        ELSE IF ~MagLeq(mag, limit) THEN ParseOk([neg |-> neg, mag |-> limit])
        ELSE ParseOk([neg |-> neg /\ mag # <<>>, mag |-> mag])

\* <i64 as FromStr>::from_str: an optional sign, then one or more decimal
\* digits; Empty, InvalidDigit, PosOverflow and NegOverflow are all errors.
ParseI64(s) ==
    LET signed == s # <<>> /\ Head(s) \in {"+", "-"}
        neg    == s # <<>> /\ Head(s) = "-"
        body   == IF signed THEN Tail(s) ELSE s
        mag    == StripLeadingZeros(DigitValues(body))
    IN  IF body = <<>> \/ ~AllDigits(body) THEN ParseErr
        ELSE IF ~MagLeq(mag, IF neg THEN I64MinMag ELSE I64MaxMag) THEN ParseErr
        ELSE ParseOk([neg |-> neg /\ mag # <<>>, mag |-> mag])

\* ParseF64 that wants a digit before the '.'
ParseF64_NeedsLeadingDigit(s) ==
    LET dot   == IndexOf(s, ".", 1)
        ipart == SubSeq(s, 1, dot - 1)
        fpart == SubSeq(s, dot + 1, Len(s))
    IN  IF ~AllDigits(ipart) \/ ~AllDigits(fpart) THEN ParseErr
        ELSE IF ipart = <<>> THEN ParseErr
        ELSE ParseOk([int  |-> StripLeadingZeros(DigitValues(ipart)),
                      frac |-> StripTrailingZeros(DigitValues(fpart))])

\* <f64 as FromStr>::from_str on the texts make_number hands it (they start
\* with a digit or '.', so no sign and no "inf"/"nan"): digits, an optional
\* '.', digits, with at least one digit overall.
ParseF64(s) ==
    LET dot   == IndexOf(s, ".", 1)
        ipart == SubSeq(s, 1, dot - 1)
        fpart == SubSeq(s, dot + 1, Len(s))
    IN  IF ~AllDigits(ipart) \/ ~AllDigits(fpart) THEN ParseErr
        ELSE IF ipart = <<>> /\ fpart = <<>> THEN ParseErr
        ELSE ParseOk([int  |-> StripLeadingZeros(DigitValues(ipart)),
                      frac |-> StripTrailingZeros(DigitValues(fpart))])

-----------------------------------------------------------------------------
(* enum Token, enum LexerError, Result<Vec<Token>, LexerError> *)

TokenEOF == [kind |-> "EOF"]
TokenFunction(name) == [kind |-> "Function", name |-> name]
TokenInt(int) == [kind |-> "Int", int |-> int]
TokenFloat(float) == [kind |-> "Float", float |-> float]
TokenSymbol(name) == [kind |-> "Symbol", name |-> name]
TokenString(string) == [kind |-> "String", string |-> string]
TokenOpeningBrace == [kind |-> "OpeningBrace"]
TokenClosingBrace == [kind |-> "ClosingBrace"]

LexerError == {"InvalidNumber", "InvalidToken", "InvalidSymbolName",
               "UnterminatedString"}

Ok(v) == [tag |-> "Ok", val |-> v]
Err(e) == [tag |-> "Err", err |-> e]
NoResult == [tag |-> "None"]

-----------------------------------------------------------------------------
(* The texts a Lexer is constructed over *)

\* every text of at most MaxLen characters, and the texts one character
\* longer over the characters that begin, continue and end lexemes
ShortTexts == UNION {[1..n -> Alphabet] : n \in 0..MaxLen}

LongerTexts == [1..(MaxLen + 1) -> CoreAlphabet]

\* Literals around the 64-bit limits, alone, behind a '-', and followed by
\* one more character.
I64MaxText == <<"9", "2", "2", "3", "3", "7", "2", "0", "3", "6", "8", "5",
                "4", "7", "7", "5", "8", "0", "7">>
I64MinText == <<"9", "2", "2", "3", "3", "7", "2", "0", "3", "6", "8", "5",
                "4", "7", "7", "5", "8", "0", "8">>

LimitTexts ==
    {pre \o body \o suf :
        pre \in {<<>>, <<"-">>, <<"0">>},
        body \in {I64MaxText, I64MinText},
        suf \in {<<>>, <<" ">>, <<"}">>, <<"'">>, <<"a">>, <<"0">>}}

Texts == ShortTexts \cup LongerTexts \cup LimitTexts

-----------------------------------------------------------------------------
(* Lexer::new *)

Init ==
    /\ input \in Texts
    /\ pos = 0
    /\ calls = 0
    /\ pc = "idle"
    /\ tokens = <<>>
    /\ num_str = <<>>
    /\ has_dot = FALSE
    /\ str = <<>>
    /\ symbol_name = <<>>
    /\ entry_char = <<>>
    /\ result = NoResult

\* Peekable::peek: <<>> for None, <<ch>> for Some(ch)
Peek == IF pos < Len(input) THEN <<input[pos + 1]>> ELSE <<>>

-----------------------------------------------------------------------------
(* Leaving tokenize and its sub-routines *)

\* make_number, make_string and make_symbol hold no state between calls
NoLocals ==
    /\ num_str' = <<>>
    /\ has_dot' = FALSE
    /\ str' = <<>>
    /\ symbol_name' = <<>>
    /\ entry_char' = <<>>

\* Return that records an error and lets the dispatch loop carry on
Return_KeepScanning(r) ==
    /\ result' = r
    /\ pc' = IF r.tag = "Err" THEN "tokenize" ELSE "idle"
    /\ tokens' = IF r.tag = "Err" THEN tokens ELSE <<>>
    /\ NoLocals

\* tokenize returns r; its token vector is moved into r or dropped
Return(r) ==
    /\ result' = r
    /\ pc' = "idle"
    /\ tokens' = <<>>
    /\ NoLocals

\* a sub-routine returned Ok and the dispatch loop pushes the token
Push(tok) ==
    /\ tokens' = Append(tokens, tok)
    /\ pc' = "tokenize"
    /\ NoLocals
    /\ UNCHANGED result

-----------------------------------------------------------------------------
(* Lexer::tokenize *)

\* Arm without the whitespace arm
Arm_NoWhitespaceArm(ch) ==
    IF is_digit(ch) \/ ch = "." THEN "number"
    ELSE IF ch = "'" THEN "symbol"
    ELSE IF ch = "\"" THEN "string"
    ELSE IF ch = "{" THEN "opening_brace"
    ELSE IF ch = "}" THEN "closing_brace"
    ELSE IF is_ascii(ch) THEN "function"
    ELSE "invalid"

\* Arm without the is_ascii guard on the word arm
Arm_NoAsciiGuard(ch) ==
    IF is_ascii_whitespace(ch) THEN "whitespace"
    ELSE IF is_digit(ch) \/ ch = "." THEN "number"
    ELSE IF ch = "'" THEN "symbol"
    ELSE IF ch = "\"" THEN "string"
    ELSE IF ch = "{" THEN "opening_brace"
    ELSE IF ch = "}" THEN "closing_brace"
    ELSE "function"

\* The arm of the match in the dispatch loop that takes ch, in match order.
Arm(ch) ==
    IF is_ascii_whitespace(ch) THEN "whitespace"
    ELSE IF is_digit(ch) \/ ch = "." THEN "number"
    ELSE IF ch = "'" THEN "symbol"
    ELSE IF ch = "\"" THEN "string"
    ELSE IF ch = "{" THEN "opening_brace"
    ELSE IF ch = "}" THEN "closing_brace"
    ELSE IF is_ascii(ch) THEN "function"
    ELSE "invalid"

\* Tokenize that starts again from the first character of the text
Tokenize_Rewinds ==
    /\ pc = "idle"
    /\ calls < MaxCalls
    /\ calls' = calls + 1
    /\ pc' = "tokenize"
    /\ tokens' = <<>>
    /\ result' = NoResult
    /\ pos' = 0
    /\ UNCHANGED <<input, num_str, has_dot, str, symbol_name, entry_char>>

\* A caller invokes tokenize on the Lexer.
Tokenize ==
    /\ pc = "idle"
    /\ calls < MaxCalls
    /\ calls' = calls + 1
    /\ pc' = "tokenize"
    /\ tokens' = <<>>
    /\ result' = NoResult
    /\ UNCHANGED <<input, pos, num_str, has_dot, str, symbol_name, entry_char>>

\* TokenizeEOF without the push of Token::EOF
TokenizeEOF_NoPush ==
    /\ pc = "tokenize"
    /\ Peek = <<>>
    /\ Return(Ok(tokens))
    /\ UNCHANGED <<input, pos, calls>>

\* text.next() is None: push EOF and return the vector
TokenizeEOF ==
    /\ pc = "tokenize"
    /\ Peek = <<>>
    /\ Return(Ok(Append(tokens, TokenEOF)))
    /\ UNCHANGED <<input, pos, calls>>

SkipWhitespace ==
    /\ pc = "tokenize"
    /\ Peek # <<>>
    /\ Arm(Peek[1]) = "whitespace"
    /\ pos' = pos + 1
    /\ UNCHANGED <<input, calls, pc, tokens, num_str, has_dot, str,
                   symbol_name, entry_char, result>>

\* enters make_number(ch)
StartNumber ==
    /\ pc = "tokenize"
    /\ Peek # <<>>
    /\ Arm(Peek[1]) = "number"
    /\ pos' = pos + 1
    /\ pc' = "make_number"
    /\ has_dot' = (Peek[1] = ".")
    /\ num_str' = <<Peek[1]>>
    /\ UNCHANGED <<input, calls, tokens, str, symbol_name, entry_char, result>>

\* enters make_symbol(None)
StartSymbol ==
    /\ pc = "tokenize"
    /\ Peek # <<>>
    /\ Arm(Peek[1]) = "symbol"
    /\ pos' = pos + 1
    /\ pc' = "make_symbol"
    /\ entry_char' = <<>>
    /\ symbol_name' = <<>>
    /\ UNCHANGED <<input, calls, tokens, num_str, has_dot, str, result>>

\* enters make_string()
StartString ==
    /\ pc = "tokenize"
    /\ Peek # <<>>
    /\ Arm(Peek[1]) = "string"
    /\ pos' = pos + 1
    /\ pc' = "make_string"
    /\ str' = <<>>
    /\ UNCHANGED <<input, calls, tokens, num_str, has_dot, symbol_name,
                   entry_char, result>>

PushOpeningBrace ==
    /\ pc = "tokenize"
    /\ Peek # <<>>
    /\ Arm(Peek[1]) = "opening_brace"
    /\ pos' = pos + 1
    /\ tokens' = Append(tokens, TokenOpeningBrace)
    /\ UNCHANGED <<input, calls, pc, num_str, has_dot, str, symbol_name,
                   entry_char, result>>

PushClosingBrace ==
    /\ pc = "tokenize"
    /\ Peek # <<>>
    /\ Arm(Peek[1]) = "closing_brace"
    /\ pos' = pos + 1
    /\ tokens' = Append(tokens, TokenClosingBrace)
    /\ UNCHANGED <<input, calls, pc, num_str, has_dot, str, symbol_name,
                   entry_char, result>>

\* StartFunction that starts the name empty, as for a symbol
StartFunction_NoSeed ==
    /\ pc = "tokenize"
    /\ Peek # <<>>
    /\ Arm(Peek[1]) = "function"
    /\ pos' = pos + 1
    /\ pc' = "make_symbol"
    /\ entry_char' = <<Peek[1]>>
    /\ symbol_name' = <<>>
    /\ UNCHANGED <<input, calls, tokens, num_str, has_dot, str, result>>

\* enters make_symbol(Some(ch))
StartFunction ==
    /\ pc = "tokenize"
    /\ Peek # <<>>
    /\ Arm(Peek[1]) = "function"
    /\ pos' = pos + 1
    /\ pc' = "make_symbol"
    /\ entry_char' = <<Peek[1]>>
    /\ symbol_name' = <<Peek[1]>>
    /\ UNCHANGED <<input, calls, tokens, num_str, has_dot, str, result>>

InvalidToken ==
    /\ pc = "tokenize"
    /\ Peek # <<>>
    /\ Arm(Peek[1]) = "invalid"
    /\ pos' = pos + 1
    /\ Return(Err("InvalidToken"))
    /\ UNCHANGED <<input, calls>>

-----------------------------------------------------------------------------
(* Lexer::make_number, one action per way through an iteration of its loop *)

\* what becomes of the finished literal: parse::<f64> or parse::<i64>
NumberToken(text, dot) ==
    IF dot
    THEN LET r == ParseF64(text)
         IN  IF r.ok THEN <<TokenFloat(r.value)>> ELSE <<>>
    ELSE LET r == ParseI64(text)
         IN  IF r.ok THEN <<TokenInt(r.value)>> ELSE <<>>

\* the character is consumed and pushed onto num_str
MakeNumberPush ==
    /\ pc = "make_number"
    /\ Peek # <<>>
    /\ Peek[1] \notin LEGAL_EXIT_CHARS
    /\ Peek[1] \notin RESERVED_CHARS
    /\ ~is_ascii_whitespace(Peek[1])
    /\ ~(Peek[1] = "." /\ has_dot)
    /\ pos' = pos + 1
    /\ num_str' = Append(num_str, Peek[1])
    /\ has_dot' = (has_dot \/ Peek[1] = ".")
    /\ UNCHANGED <<input, calls, pc, tokens, str, symbol_name, entry_char,
                   result>>

\* MakeNumberReserved that reports the reserved character as make_symbol does
MakeNumberReserved_SymbolError ==
    /\ pc = "make_number"
    /\ Peek # <<>>
    /\ Peek[1] \notin LEGAL_EXIT_CHARS
    /\ Peek[1] \in RESERVED_CHARS
    /\ Return(Err("InvalidSymbolName"))
    /\ UNCHANGED <<input, pos, calls>>

\* a reserved character is peeked and left in place
MakeNumberReserved ==
    /\ pc = "make_number"
    /\ Peek # <<>>
    /\ Peek[1] \notin LEGAL_EXIT_CHARS
    /\ Peek[1] \in RESERVED_CHARS
    /\ Return(Err("InvalidNumber"))
    /\ UNCHANGED <<input, pos, calls>>

\* MakeNumberSecondDot that breaks out of the loop instead of returning
MakeNumberSecondDot_EndsLexeme ==
    /\ pc = "make_number"
    /\ Peek # <<>>
    /\ Peek[1] \notin LEGAL_EXIT_CHARS
    /\ Peek[1] \notin RESERVED_CHARS
    /\ ~is_ascii_whitespace(Peek[1])
    /\ Peek[1] = "." /\ has_dot
    /\ pos' = pos + 1
    /\ LET tok == NumberToken(num_str, has_dot)
       IN  IF tok # <<>> THEN Push(tok[1])
           ELSE Return(Err("InvalidNumber"))
    /\ UNCHANGED <<input, calls>>

\* a second '.' is consumed
MakeNumberSecondDot ==
    /\ pc = "make_number"
    /\ Peek # <<>>
    /\ Peek[1] \notin LEGAL_EXIT_CHARS
    /\ Peek[1] \notin RESERVED_CHARS
    /\ ~is_ascii_whitespace(Peek[1])
    /\ Peek[1] = "." /\ has_dot
    /\ pos' = pos + 1
    /\ Return(Err("InvalidNumber"))
    /\ UNCHANGED <<input, calls>>

\* MakeNumberEnd taking the '}' with next() as it does whitespace
MakeNumberEnd_ConsumesExit ==
    /\ pc = "make_number"
    /\ \/ Peek = <<>> /\ pos' = pos
       \/ Peek # <<>> /\ Peek[1] \in LEGAL_EXIT_CHARS /\ pos' = pos + 1
       \/ /\ Peek # <<>>
          /\ Peek[1] \notin LEGAL_EXIT_CHARS
          /\ Peek[1] \notin RESERVED_CHARS
          /\ is_ascii_whitespace(Peek[1])
          /\ pos' = pos + 1
    /\ LET tok == NumberToken(num_str, has_dot)
       IN  IF tok # <<>> THEN Push(tok[1])
           ELSE Return(Err("InvalidNumber"))
    /\ UNCHANGED <<input, calls>>

\* the loop ends (end of text, '}' left in place, whitespace consumed) and
\* the literal is parsed
MakeNumberEnd ==
    /\ pc = "make_number"
    /\ \/ Peek = <<>> /\ pos' = pos
       \/ Peek # <<>> /\ Peek[1] \in LEGAL_EXIT_CHARS /\ pos' = pos
       \/ /\ Peek # <<>>
          /\ Peek[1] \notin LEGAL_EXIT_CHARS
          /\ Peek[1] \notin RESERVED_CHARS
          /\ is_ascii_whitespace(Peek[1])
          /\ pos' = pos + 1
    /\ LET tok == NumberToken(num_str, has_dot)
       IN  IF tok # <<>> THEN Push(tok[1])
           ELSE Return(Err("InvalidNumber"))
    /\ UNCHANGED <<input, calls>>

-----------------------------------------------------------------------------
(* Lexer::make_string *)

\* MakeStringPush that keeps ASCII characters only
MakeStringPush_AsciiOnly ==
    /\ pc = "make_string"
    /\ Peek # <<>>
    /\ Peek[1] # "\""
    /\ pos' = pos + 1
    /\ str' = IF is_ascii(Peek[1]) THEN Append(str, Peek[1]) ELSE str
    /\ UNCHANGED <<input, calls, pc, tokens, num_str, has_dot, symbol_name,
                   entry_char, result>>

MakeStringPush ==
    /\ pc = "make_string"
    /\ Peek # <<>>
    /\ Peek[1] # "\""
    /\ pos' = pos + 1
    /\ str' = Append(str, Peek[1])
    /\ UNCHANGED <<input, calls, pc, tokens, num_str, has_dot, symbol_name,
                   entry_char, result>>

MakeStringEnd ==
    /\ pc = "make_string"
    /\ Peek # <<>>
    /\ Peek[1] = "\""
    /\ pos' = pos + 1
    /\ Push(TokenString(str))
    /\ UNCHANGED <<input, calls>>

MakeStringUnterminated ==
    /\ pc = "make_string"
    /\ Peek = <<>>
    /\ Return(Err("UnterminatedString"))
    /\ UNCHANGED <<input, pos, calls>>

-----------------------------------------------------------------------------
(* Lexer::make_symbol *)

\* MakeSymbolPush that reads the character with peek() and never advances
MakeSymbolPush_NoAdvance ==
    /\ pc = "make_symbol"
    /\ Peek # <<>>
    /\ ~(Peek[1] \in LEGAL_EXIT_CHARS \/ is_ascii_whitespace(Peek[1]))
    /\ Peek[1] \notin RESERVED_CHARS
    /\ pos' = pos
    /\ symbol_name' = Append(symbol_name, Peek[1])
    /\ UNCHANGED <<input, calls, pc, tokens, num_str, has_dot, str,
                   entry_char, result>>

MakeSymbolPush ==
    /\ pc = "make_symbol"
    /\ Peek # <<>>
    /\ ~(Peek[1] \in LEGAL_EXIT_CHARS \/ is_ascii_whitespace(Peek[1]))
    /\ Peek[1] \notin RESERVED_CHARS
    /\ pos' = pos + 1
    /\ symbol_name' = Append(symbol_name, Peek[1])
    /\ UNCHANGED <<input, calls, pc, tokens, num_str, has_dot, str,
                   entry_char, result>>

MakeSymbolReserved ==
    /\ pc = "make_symbol"
    /\ Peek # <<>>
    /\ ~(Peek[1] \in LEGAL_EXIT_CHARS \/ is_ascii_whitespace(Peek[1]))
    /\ Peek[1] \in RESERVED_CHARS
    /\ Return(Err("InvalidSymbolName"))
    /\ UNCHANGED <<input, pos, calls>>

\* MakeSymbolEnd that forgets which arm called make_symbol
MakeSymbolEnd_AlwaysFunction ==
    /\ pc = "make_symbol"
    /\ \/ Peek = <<>>
       \/ Peek # <<>> /\
          (Peek[1] \in LEGAL_EXIT_CHARS \/ is_ascii_whitespace(Peek[1]))
    /\ Push(TokenFunction(symbol_name))
    /\ UNCHANGED <<input, pos, calls>>

\* MakeSymbolEnd that refuses an empty name
MakeSymbolEnd_RejectsEmpty ==
    /\ pc = "make_symbol"
    /\ \/ Peek = <<>>
       \/ Peek # <<>> /\
          (Peek[1] \in LEGAL_EXIT_CHARS \/ is_ascii_whitespace(Peek[1]))
    /\ IF symbol_name = <<>>
       THEN Return(Err("InvalidSymbolName"))
       ELSE IF entry_char = <<>>
       THEN Push(TokenSymbol(symbol_name))
       ELSE Push(TokenFunction(symbol_name))
    /\ UNCHANGED <<input, pos, calls>>

\* MakeSymbolEnd that takes the character that ends the name
MakeSymbolEnd_ConsumesExit ==
    /\ pc = "make_symbol"
    /\ \/ Peek = <<>> /\ pos' = pos
       \/ /\ Peek # <<>>
          /\ Peek[1] \in LEGAL_EXIT_CHARS \/ is_ascii_whitespace(Peek[1])
          /\ pos' = pos + 1
    /\ IF entry_char = <<>>
       THEN Push(TokenSymbol(symbol_name))
       ELSE Push(TokenFunction(symbol_name))
    /\ UNCHANGED <<input, calls>>

\* the name ends; the caller was the '\x27' arm (Symbol) or the word arm
\* (Function)
MakeSymbolEnd ==
    /\ pc = "make_symbol"
    /\ \/ Peek = <<>>
       \/ Peek # <<>> /\
          (Peek[1] \in LEGAL_EXIT_CHARS \/ is_ascii_whitespace(Peek[1]))
    /\ IF entry_char = <<>>
       THEN Push(TokenSymbol(symbol_name))
       ELSE Push(TokenFunction(symbol_name))
    /\ UNCHANGED <<input, pos, calls>>

-----------------------------------------------------------------------------

Next ==
    \/ Tokenize
    \/ TokenizeEOF
    \/ SkipWhitespace
    \/ StartNumber
    \/ StartSymbol
    \/ StartString
    \/ PushOpeningBrace
    \/ PushClosingBrace
    \/ StartFunction
    \/ InvalidToken
    \/ MakeNumberPush
    \/ MakeNumberReserved
    \/ MakeNumberSecondDot
    \/ MakeNumberEnd
    \/ MakeStringPush
    \/ MakeStringEnd
    \/ MakeStringUnterminated
    \/ MakeSymbolPush
    \/ MakeSymbolReserved
    \/ MakeSymbolEnd

Spec == Init /\ [][Next]_vars

-----------------------------------------------------------------------------
(* Properties *)

\* the first tokenize call on the Lexer has returned
FirstReturn == calls = 1 /\ pc = "idle"

\* s matches [0-9]+
UnsignedIntegerText(s) == s # <<>> /\ AllDigits(s)

\* s matches -?[0-9]+
IntegerText(s) ==
    \/ UnsignedIntegerText(s)
    \/ s # <<>> /\ Head(s) = "-" /\ UnsignedIntegerText(Tail(s))

\* the decimal value of an integer text, and whether an i64 holds it
DecimalValue(s) ==
    LET neg == Head(s) = "-"
        mag == StripLeadingZeros(DigitValues(IF neg THEN Tail(s) ELSE s))
    IN  [neg |-> neg /\ mag # <<>>, mag |-> mag]

InI64Range(v) == MagLeq(v.mag, IF v.neg THEN I64MinMag ELSE I64MaxMag)

\* C1 as stated: every text matching -?[0-9]+ with a value in the signed
\* 64-bit range, a leading '-' included, tokenizes to [Int(v), EOF].
C1_SignedIntegerTexts ==
    (FirstReturn /\ IntegerText(input) /\ InI64Range(DecimalValue(input)))
        => result = Ok(<<TokenInt(DecimalValue(input)), TokenEOF>>)

\* C1 amended: every text matching [0-9]+ with a value of at most 2^63-1
\* tokenizes to [Int(v), EOF], v its decimal value; a text -[0-9]+ is
\* scanned as a word and tokenizes to [Function(text), EOF].
C1_UnsignedIntegerTexts ==
    FirstReturn =>
        /\ (UnsignedIntegerText(input) /\ InI64Range(DecimalValue(input)))
              => result = Ok(<<TokenInt(DecimalValue(input)), TokenEOF>>)
        /\ (IntegerText(input) /\ Head(input) = "-")
              => result = Ok(<<TokenFunction(input), TokenEOF>>)

\* the largest i64 has been tokenized
C1_Witness ==
    /\ FirstReturn
    /\ input = I64MaxText
    /\ result = Ok(<<TokenInt([neg |-> FALSE, mag |-> I64MaxMag]), TokenEOF>>)

\* C2: a successful tokenize returns a non-empty vector whose last element
\* is the only EOF in it, and EOF is not pushed before the text is exhausted.
C2_OneTrailingEOF ==
    /\ \A i \in 1..Len(tokens) : tokens[i] # TokenEOF
    /\ result.tag = "Ok" =>
          /\ Len(result.val) >= 1
          /\ result.val[Len(result.val)] = TokenEOF
          /\ \A i \in 1..(Len(result.val) - 1) : result.val[i] # TokenEOF
          /\ pos = Len(input)

\* a successful scan of several lexemes
C2_Witness ==
    /\ FirstReturn
    /\ result.tag = "Ok"
    /\ Len(result.val) >= 3

\* character classes as the claims name them
StartsNumber(ch) == ch \in DecimalDigits \cup {"."}
StartsSymbol(ch) == ch = "'"
StartsWord(ch) ==
    /\ ch \notin NonAsciiChars
    /\ ch \notin AsciiWhitespace \cup DecimalDigits \cup {".", "'", "\"", "{", "}"}
Reserved(ch) == ch \in {"'", "{"}
EndsLexeme(ch) == ch \in AsciiWhitespace \cup {"}"}

\* the step in which a tokenize call returns an error
Fails == result.tag # "Err" /\ result'.tag = "Err"

\* C3: tokenize is fail-fast.  While a call scans, no error has occurred in
\* it; the step that meets the first error ends the call with that error and
\* nothing else (the tokens recognised so far are dropped), having consumed
\* at most the character it examined; after it the cursor stays where it is
\* until the caller calls tokenize again.
C3_FailFast ==
    [][/\ pc # "idle" => result = NoResult
       /\ Fails =>
             /\ pc # "idle" /\ pc' = "idle"
             /\ result' \in {Err(e) : e \in LexerError}
             /\ tokens' = <<>>
             /\ pos' \in {pos, pos + 1}
       /\ result.tag = "Err" =>
             \/ pos' = pos /\ result' = result /\ pc' = "idle"
             \/ pc = "idle" /\ calls' = calls + 1]_vars

\* "}a'é" has failed on its second lexeme, before the reserved character,
\* with a malformed lexeme left unread behind it
C3_Witness ==
    /\ FirstReturn
    /\ result = Err("InvalidSymbolName")
    /\ input = <<"}", "a", "'", "é">>
    /\ pos = 2

\* the text of a lexeme token holds no '}'
NoClosingBraceIn(tok) ==
    tok.kind \in {"Symbol", "Function"} => \A i \in 1..Len(tok.name) : tok.name[i] # "}"

\* position of the first character of s at or after i that ends a lexeme,
\* Len(s) + 1 when there is none
RECURSIVE FirstEnd(_, _)
FirstEnd(s, i) ==
    IF i > Len(s) THEN i
    ELSE IF EndsLexeme(s[i]) THEN i
    ELSE FirstEnd(s, i + 1)

\* C4: a '}' met in the body of a number, symbol or word ends the lexeme
\* and stays in the text (whether the lexeme yields its token or, for a
\* number that does not parse, an error); the dispatch loop then turns that
\* '}' into ClosingBrace, so a text whose first lexeme runs up to a '}'
\* gives that lexeme's token and then ClosingBrace.
C4_ClosingBraceEndsLexeme ==
    /\ [][/\ (pc \in {"make_number", "make_symbol"} /\ Peek = <<"}">>) =>
                /\ pos' = pos
                /\ \/ pc = "make_number" /\ result' = Err("InvalidNumber")
                   \/ /\ pc' = "tokenize"
                      /\ Len(tokens') = Len(tokens) + 1
                      /\ SubSeq(tokens', 1, Len(tokens)) = tokens
                      /\ tokens'[Len(tokens')].kind \in
                            IF pc = "make_number" THEN {"Int", "Float"}
                            ELSE {"Symbol", "Function"}
                      /\ NoClosingBraceIn(tokens'[Len(tokens')])
          /\ (pc = "tokenize" /\ Peek = <<"}">>) =>
                /\ pos' = pos + 1
                /\ tokens' = Append(tokens, TokenClosingBrace)]_vars
    /\ [](LET k == FirstEnd(input, 1)
          IN  (/\ FirstReturn
               /\ result.tag = "Ok"
               /\ input # <<>>
               /\ StartsNumber(input[1]) \/ StartsSymbol(input[1])
                     \/ StartsWord(input[1])
               /\ k <= Len(input)
               /\ input[k] = "}")
              => /\ result.val[1].kind \in {"Int", "Float", "Symbol", "Function"}
                 /\ NoClosingBraceIn(result.val[1])
                 /\ result.val[2] = TokenClosingBrace)

\* "1}" and a word before a '}' have been tokenized
C4_Witness ==
    /\ FirstReturn
    /\ \/ /\ input = <<"1", "}">>
          /\ result = Ok(<<TokenInt([neg |-> FALSE, mag |-> <<1>>]),
                           TokenClosingBrace, TokenEOF>>)
       \/ /\ input = <<"a", "a", "}">>
          /\ result = Ok(<<TokenFunction(<<"a", "a">>), TokenClosingBrace,
                           TokenEOF>>)

\* C5: a reserved character (apostrophe or '{') reached while a number, a
\* symbol or a word is in progress is an error, InvalidNumber in a number
\* and InvalidSymbolName in a symbol or word; so a text whose first lexeme
\* holds a reserved character after its leading character fails that way.
C5_ReservedInsideLexeme ==
    /\ [][/\ (pc = "make_number" /\ Peek # <<>> /\ Reserved(Peek[1])) =>
                result' = Err("InvalidNumber") /\ pc' = "idle"
          /\ (pc = "make_symbol" /\ Peek # <<>> /\ Reserved(Peek[1])) =>
                result' = Err("InvalidSymbolName") /\ pc' = "idle"]_vars
    /\ [](LET k == FirstEnd(input, 1)
          IN  (/\ FirstReturn
               /\ input # <<>>
               /\ \E i \in 2..(k - 1) : Reserved(input[i]))
              => /\ StartsNumber(input[1]) => result = Err("InvalidNumber")
                 /\ (StartsSymbol(input[1]) \/ StartsWord(input[1]))
                       => result = Err("InvalidSymbolName"))

\* "a'a", "a{" and "'a'" have failed with InvalidSymbolName, "1{" with
\* InvalidNumber
C5_Witness ==
    /\ FirstReturn
    /\ \/ input = <<"a", "'", "a">> /\ result = Err("InvalidSymbolName")
       \/ input = <<"a", "{">> /\ result = Err("InvalidSymbolName")
       \/ input = <<"'", "a", "'">> /\ result = Err("InvalidSymbolName")
       \/ input = <<"1", "{">> /\ result = Err("InvalidNumber")

-----------------------------------------------------------------------------
(* The canonical text of a token, as C6 defines it *)

DigitChar(d) ==
    CASE d = 0 -> "0" [] d = 1 -> "1" [] d = 2 -> "2" [] d = 3 -> "3"
      [] d = 4 -> "4" [] d = 5 -> "5" [] d = 6 -> "6" [] d = 7 -> "7"
      [] d = 8 -> "8" [] d = 9 -> "9"

DigitChars(ds) == [i \in 1..Len(ds) |-> DigitChar(ds[i])]

\* the decimal value of a number: "0", "10", "-1"; "1.0", "0.1", "0.0"
CanonicalText(tok) ==
    CASE tok.kind = "Int" ->
            IF tok.int.mag = <<>> THEN <<"0">>
            ELSE (IF tok.int.neg THEN <<"-">> ELSE <<>>) \o DigitChars(tok.int.mag)
      [] tok.kind = "Float" ->
            (IF tok.float.int = <<>> THEN <<"0">> ELSE DigitChars(tok.float.int))
            \o <<".">> \o
            (IF tok.float.frac = <<>> THEN <<"0">> ELSE DigitChars(tok.float.frac))
      [] tok.kind = "Symbol" -> <<"'">> \o tok.name
      [] tok.kind = "Function" -> tok.name
      [] tok.kind = "OpeningBrace" -> <<"{">>
      [] tok.kind = "ClosingBrace" -> <<"}">>

\* the canonical texts of toks joined with single spaces
RECURSIVE Serialize(_)
Serialize(toks) ==
    IF toks = <<>> THEN <<>>
    ELSE IF Len(toks) = 1 THEN CanonicalText(toks[1])
    ELSE CanonicalText(toks[1]) \o <<" ">> \o Serialize(Tail(toks))

I64(neg, mag) == [neg |-> neg, mag |-> mag]
F64(int, frac) == [int |-> int, frac |-> frac]

\* the tokens the round trip is tried on
RoundTripTokens ==
    {TokenInt(I64(FALSE, <<>>)), TokenInt(I64(FALSE, <<1>>)),
     TokenInt(I64(FALSE, <<1, 0>>)), TokenInt(I64(TRUE, <<1>>)),
     TokenFloat(F64(<<1>>, <<>>)), TokenFloat(F64(<<>>, <<1>>)),
     TokenFloat(F64(<<>>, <<>>)),
     TokenSymbol(<<>>), TokenSymbol(<<"a">>), TokenSymbol(<<"1">>),
     TokenSymbol(<<"\"">>), TokenSymbol(<<"a", " ">>), TokenSymbol(<<"{">>),
     TokenFunction(<<"a">>), TokenFunction(<<"-", "1">>),
     TokenFunction(<<"a", "1">>), TokenFunction(<<"1">>),
     TokenFunction(<<>>), TokenFunction(<<"a", "'">>),
     TokenOpeningBrace, TokenClosingBrace}

RoundTripSeqs == UNION {[1..n -> RoundTripTokens] : n \in 0..MaxTokens}

SerializedAs == [toks \in RoundTripSeqs |-> Serialize(toks)]

RoundTripTexts == {SerializedAs[toks] : toks \in RoundTripSeqs}

\* C6 as stated: any sequence of Int, Float, Symbol, Function and brace
\* tokens, serialized and tokenized again, comes back followed by EOF.
C6_RoundTripAnyTokens ==
    (FirstReturn /\ input \in RoundTripTexts) =>
        \A toks \in RoundTripSeqs :
            SerializedAs[toks] = input => result = Ok(toks \o <<TokenEOF>>)

\* the tokens whose canonical text tokenize reads back as the same token
NameBody(name, from) ==
    \A i \in from..Len(name) :
        name[i] \notin AsciiWhitespace \cup {"}", "'", "{"}

ReadBack(tok) ==
    CASE tok.kind = "Int" -> ~tok.int.neg
      [] tok.kind = "Float" -> TRUE
      [] tok.kind = "Symbol" -> NameBody(tok.name, 1)
      [] tok.kind = "Function" ->
            tok.name # <<>> /\ StartsWord(tok.name[1]) /\ NameBody(tok.name, 2)
      [] OTHER -> TRUE

\* C6 amended: the round trip holds for the sequences of non-negative Int,
\* non-negative finite Float (written with a '.'), Symbol whose name holds
\* no ASCII whitespace, '}', apostrophe or '{', Function whose name is not
\* empty, starts with a word-starting character and goes on with no ASCII
\* whitespace, '}', apostrophe or '{', and brace tokens.
C6_RoundTripLexableTokens ==
    (FirstReturn /\ input \in RoundTripTexts) =>
        \A toks \in RoundTripSeqs :
            (SerializedAs[toks] = input /\ \A i \in 1..Len(toks) : ReadBack(toks[i]))
                => result = Ok(toks \o <<TokenEOF>>)

\* "1 'a" has come back as the sequence it serializes
C6_Witness ==
    /\ FirstReturn
    /\ input = Serialize(<<TokenInt(I64(FALSE, <<1>>)), TokenSymbol(<<"a">>)>>)
    /\ result = Ok(<<TokenInt(I64(FALSE, <<1>>)), TokenSymbol(<<"a">>), TokenEOF>>)

-----------------------------------------------------------------------------

\* the characters with the Unicode White_Space property (char::is_whitespace)
\* among those named here: U+000B and U+00A0 are not ASCII whitespace
WhitespaceChars == AsciiWhitespace \cup {"U+000B", "U+00A0"}

NamesAvoid(toks, chars) ==
    \A i \in 1..Len(toks) :
        toks[i].kind \in {"Symbol", "Function"} =>
            \A j \in 1..Len(toks[i].name) : toks[i].name[j] \notin chars

\* C7 as stated: in a successful result no Symbol or Function text holds a
\* whitespace character, an apostrophe or a '{'.
C7_NamesWithoutWhitespace ==
    result.tag = "Ok" => NamesAvoid(result.val, WhitespaceChars \cup {"'", "{"})

\* C7 amended: in a successful result no Symbol or Function text holds an
\* ASCII whitespace character (space, tab, line feed, form feed, carriage
\* return), an apostrophe or a '{'.
C7_NamesWithoutAsciiWhitespace ==
    /\ NamesAvoid(tokens, AsciiWhitespace \cup {"'", "{"})
    /\ result.tag = "Ok" => NamesAvoid(result.val, AsciiWhitespace \cup {"'", "{"})

\* "'a a" has given a Symbol and a Function
C7_Witness ==
    /\ FirstReturn
    /\ input = <<"'", "a", " ", "a">>
    /\ result = Ok(<<TokenSymbol(<<"a">>), TokenFunction(<<"a">>), TokenEOF>>)

\* C8: string recognition starts right after a '"' read by the dispatch
\* loop; str is always, verbatim, the text since that '"', which holds no
\* '"'; each step either takes the next character whatever it is, or ends at
\* the first '"' (consumed) with String(str), or fails with
\* UnterminatedString at the end of the text.
C8_StringVerbatim ==
    /\ [](pc = "make_string" =>
             /\ pos - Len(str) >= 1
             /\ input[pos - Len(str)] = "\""
             /\ str = SubSeq(input, pos - Len(str) + 1, pos)
             /\ \A i \in 1..Len(str) : str[i] # "\"")
    /\ [][/\ (pc = "tokenize" /\ Peek = <<"\"">>) =>
                pc' = "make_string" /\ str' = <<>> /\ pos' = pos + 1
          /\ pc = "make_string" =>
                IF Peek = <<>>
                THEN result' = Err("UnterminatedString") /\ pc' = "idle"
                ELSE IF Peek = <<"\"">>
                THEN /\ tokens' = Append(tokens, TokenString(str))
                     /\ pos' = pos + 1
                     /\ pc' = "tokenize"
                ELSE /\ str' = Append(str, Peek[1])
                     /\ pos' = pos + 1
                     /\ pc' = "make_string"
                     /\ tokens' = tokens /\ result' = result]_vars
    /\ [](LET k == IndexOf(input, "\"", 2)
          IN  (FirstReturn /\ input # <<>> /\ input[1] = "\"") =>
                 /\ k > Len(input) => result = Err("UnterminatedString")
                 /\ (k <= Len(input) /\ result.tag = "Ok") =>
                        result.val[1] = TokenString(SubSeq(input, 2, k - 1)))

\* the string of an apostrophe and a non-ASCII character has been recognised
C8_Witness ==
    /\ FirstReturn
    /\ input = <<"\"", "'", "é", "\"">>
    /\ result = Ok(<<TokenString(<<"'", "é">>), TokenEOF>>)

DotCount(s) == Cardinality({i \in 1..Len(s) : s[i] = "."})

\* C9: a number lexeme in which a second '.' is reached fails with
\* InvalidNumber: has_dot tells whether num_str holds a '.', which it does at
\* most once, a '.' peeked while has_dot holds returns the error, and a text
\* whose first lexeme starts with a digit or '.' and holds two '.' before
\* its end (end of text, ASCII whitespace or '}') fails with InvalidNumber.
C9_SecondDot ==
    /\ [](pc = "make_number" =>
             /\ DotCount(num_str) <= 1
             /\ has_dot = (DotCount(num_str) = 1))
    /\ [][(pc = "make_number" /\ has_dot /\ Peek = <<".">>) =>
             result' = Err("InvalidNumber") /\ pc' = "idle"]_vars
    /\ [](LET k == FirstEnd(input, 1)
          IN  (/\ FirstReturn
               /\ input # <<>>
               /\ StartsNumber(input[1])
               /\ DotCount(SubSeq(input, 1, k - 1)) >= 2)
              => result = Err("InvalidNumber"))

\* ".1.1" has failed at its second '.'
C9_Witness ==
    /\ FirstReturn
    /\ input = <<".", "1", ".", "1">>
    /\ result = Err("InvalidNumber")
    /\ pos = 3

\* C10: InvalidToken is returned exactly by the step in which the dispatch
\* loop reads a non-ASCII character as a leading character; a non-ASCII
\* character met in the body of a string, a symbol or a word is taken into
\* the text without any error.
C10_InvalidToken ==
    /\ [][/\ (pc = "tokenize" /\ Peek # <<>> /\ Peek[1] \in NonAsciiChars) =>
                result' = Err("InvalidToken") /\ pc' = "idle" /\ pos' = pos + 1
          /\ (Fails /\ result'.err = "InvalidToken") =>
                pc = "tokenize" /\ Peek # <<>> /\ Peek[1] \in NonAsciiChars
          /\ (/\ pc \in {"make_string", "make_symbol"}
              /\ Peek # <<>> /\ Peek[1] \in NonAsciiChars) =>
                /\ result' = NoResult
                /\ pc' = pc
                /\ pos' = pos + 1
                /\ str' = IF pc = "make_string" THEN Append(str, Peek[1]) ELSE str
                /\ symbol_name' = IF pc = "make_symbol"
                                  THEN Append(symbol_name, Peek[1])
                                  ELSE symbol_name]_vars
    /\ []((FirstReturn /\ result = Err("InvalidToken")) =>
             pos >= 1 /\ input[pos] \in NonAsciiChars)

\* "aé é": the word took its non-ASCII character, the leading one failed
C10_Witness ==
    /\ FirstReturn
    /\ input = <<"a", "é", " ", "é">>
    /\ result = Err("InvalidToken")
    /\ pos = 4

-----------------------------------------------------------------------------

TokenKinds == {"EOF", "Function", "Int", "Float", "Symbol", "String",
               "OpeningBrace", "ClosingBrace"}

\* the steps of a tokenize call (Next without the caller's step)
Scan ==
    \/ TokenizeEOF \/ SkipWhitespace \/ StartNumber \/ StartSymbol
    \/ StartString \/ PushOpeningBrace \/ PushClosingBrace \/ StartFunction
    \/ InvalidToken
    \/ MakeNumberPush \/ MakeNumberReserved \/ MakeNumberSecondDot
    \/ MakeNumberEnd
    \/ MakeStringPush \/ MakeStringEnd \/ MakeStringUnterminated
    \/ MakeSymbolPush \/ MakeSymbolReserved \/ MakeSymbolEnd

\* what is left to do: two steps per unread character, one more to leave a
\* recognition loop
Measure ==
    2 * (Len(input) - pos) + (IF pc \in {"idle", "tokenize"} THEN 0 ELSE 1)

\* C11: tokenize terminates without panicking.  While a call runs some step
\* of the code applies (make_symbol is never left with an unwrap of None),
\* every step consumes a character or leaves its loop, so that Measure,
\* which starts at twice the length of the unread text, drops with every
\* step until the call returns; and what it returns is a token vector or
\* one of the four LexerError values.
C11_Terminates ==
    /\ [](pc # "idle" => ENABLED Scan)
    /\ [](Measure >= 0)
    /\ [][pc # "idle" =>
             /\ pc' = "idle" \/ Measure' < Measure
             /\ pos' = pos + 1 \/ pc' # pc]_vars
    /\ []((pc = "idle" /\ calls > 0) =>
             \/ /\ result.tag = "Ok"
                /\ result = Ok(result.val)
                /\ \A i \in 1..Len(result.val) : result.val[i].kind \in TokenKinds
             \/ result \in {Err(e) : e \in LexerError})

\* "a}a}" has been tokenized, in and out of make_symbol twice
C11_Witness ==
    /\ FirstReturn
    /\ input = <<"a", "}", "a", "}">>
    /\ result = Ok(<<TokenFunction(<<"a">>), TokenClosingBrace,
                     TokenFunction(<<"a">>), TokenClosingBrace, TokenEOF>>)

-----------------------------------------------------------------------------

\* s is digits around exactly one '.', with at least one digit
UnsignedFloatText(s) ==
    /\ Len(s) >= 2
    /\ DotCount(s) = 1
    /\ \A i \in 1..Len(s) : s[i] = "." \/ s[i] \in DecimalDigits

\* a text str::parse::<f64> accepts that holds exactly one '.'
FloatText(s) ==
    \/ UnsignedFloatText(s)
    \/ s # <<>> /\ Head(s) \in {"-", "+"} /\ UnsignedFloatText(Tail(s))

\* the value of an unsigned float text
FloatValue(s) ==
    LET dot == IndexOf(s, ".", 1)
    IN  F64(StripLeadingZeros(DigitValues(SubSeq(s, 1, dot - 1))),
            StripTrailingZeros(DigitValues(SubSeq(s, dot + 1, Len(s)))))

-----------------------------------------------------------------------------

\* no character of s from position from on ends or forbids a name
BodyChars(s, from) ==
    \A i \in from..Len(s) : s[i] \notin AsciiWhitespace \cup {"}", "'", "{"}

\* C13: an apostrophe followed by a body free of ASCII whitespace, '}',
\* apostrophe and '{' tokenizes to [Symbol(body), EOF]; and an apostrophe at
\* the end of the text or right before ASCII whitespace or '}' yields
\* Symbol("") and no error.
C13_SymbolTexts ==
    /\ []((FirstReturn /\ input # <<>> /\ input[1] = "'" /\ BodyChars(input, 2))
             => result = Ok(<<TokenSymbol(Tail(input)), TokenEOF>>))
    /\ [][(/\ pc = "make_symbol"
           /\ entry_char = <<>>
           /\ symbol_name = <<>>
           /\ Peek = <<>> \/ Peek[1] \in AsciiWhitespace \cup {"}"})
          => /\ tokens' = Append(tokens, TokenSymbol(<<>>))
             /\ pc' = "tokenize"
             /\ pos' = pos
             /\ result' = NoResult]_vars

\* "'a\"é" has given the Symbol of everything behind the apostrophe, and
\* "'}" the empty Symbol
C13_Witness ==
    /\ FirstReturn
    /\ \/ /\ input = <<"'", "a", "\"", "é">>
          /\ result = Ok(<<TokenSymbol(<<"a", "\"", "é">>), TokenEOF>>)
       \/ /\ input = <<"'", "}">>
          /\ result = Ok(<<TokenSymbol(<<>>), TokenClosingBrace, TokenEOF>>)

\* C14: a text that starts with a word-starting character and goes on free
\* of ASCII whitespace, '}', apostrophe and '{' tokenizes to
\* [Function(text), EOF], whatever else it holds ('"', digits, '.',
\* non-ASCII characters).
C14_WordTexts ==
    (FirstReturn /\ input # <<>> /\ StartsWord(input[1]) /\ BodyChars(input, 2))
        => result = Ok(<<TokenFunction(input), TokenEOF>>)

\* "a\"1." has been tokenized to one Function
C14_Witness ==
    /\ FirstReturn
    /\ input = <<"a", "\"", "1", ".">>
    /\ result = Ok(<<TokenFunction(<<"a", "\"", "1", ".">>), TokenEOF>>)

NonWhitespaceCount(s) == Cardinality({i \in 1..Len(s) : s[i] \notin AsciiWhitespace})

\* C15: a text of ASCII whitespace only, the empty text included, tokenizes
\* to [EOF]; ASCII whitespace read by the dispatch loop is consumed and
\* pushes nothing, so a result never holds more tokens before its EOF than
\* the text holds characters that are not ASCII whitespace.
C15_WhitespaceOnly ==
    /\ []((FirstReturn /\ \A i \in 1..Len(input) : input[i] \in AsciiWhitespace)
             => result = Ok(<<TokenEOF>>))
    /\ []((FirstReturn /\ result.tag = "Ok")
             => Len(result.val) - 1 <= NonWhitespaceCount(input))
    /\ [][(pc = "tokenize" /\ Peek # <<>> /\ Peek[1] \in AsciiWhitespace)
             => /\ tokens' = tokens
                /\ pos' = pos + 1
                /\ pc' = "tokenize"
                /\ result' = result]_vars

\* three spaces have given [EOF]
C15_Witness ==
    /\ FirstReturn
    /\ input = <<" ", " ", " ">>
    /\ result = Ok(<<TokenEOF>>)

-----------------------------------------------------------------------------

\* text is a lexeme of the grammar and tok is the token it denotes
LexemeOf(tok, text) ==
    CASE tok.kind = "OpeningBrace" -> text = <<"{">>
      [] tok.kind = "ClosingBrace" -> text = <<"}">>
      [] tok.kind = "String" ->
            /\ text = <<"\"">> \o tok.string \o <<"\"">>
            /\ \A i \in 1..Len(tok.string) : tok.string[i] # "\""
      [] tok.kind = "Symbol" ->
            text = <<"'">> \o tok.name /\ BodyChars(text, 2)
      [] tok.kind = "Function" ->
            text = tok.name /\ text # <<>> /\ StartsWord(text[1]) /\ BodyChars(text, 2)
      [] tok.kind = "Int" ->
            UnsignedIntegerText(text) /\ tok.int = DecimalValue(text)
      [] tok.kind = "Float" ->
            UnsignedFloatText(text) /\ tok.float = FloatValue(text)
      [] OTHER -> FALSE

\* the lexeme s[j..k] of tok cannot be extended: a number or a name runs up
\* to the end of s, ASCII whitespace or '}'
Maximal(tok, s, k) ==
    tok.kind \in {"Int", "Float", "Symbol", "Function"} =>
        k = Len(s) \/ EndsLexeme(s[k + 1])

\* s from position i on is, in order, the lexemes of toks, one each, with
\* nothing but ASCII whitespace before, between and after them
RECURSIVE Segmented(_, _, _)
Segmented(toks, s, i) ==
    IF toks = <<>>
    THEN \A n \in i..Len(s) : s[n] \in AsciiWhitespace
    ELSE \E j \in i..Len(s) : \E k \in j..Len(s) :
            /\ \A n \in i..(j - 1) : s[n] \in AsciiWhitespace
            /\ LexemeOf(toks[1], SubSeq(s, j, k))
            /\ Maximal(toks[1], s, k)
            /\ Segmented(Tail(toks), s, k + 1)

\* C16: in a successful scan the tokens before EOF are, in order, the
\* maximal lexemes of the text, disjoint and increasing in position, and
\* every other character is ASCII whitespace between them; the cursor moves
\* forward one character at a time and has read the whole text at the end.
C16_TokensAreLexemes ==
    /\ []((FirstReturn /\ result.tag = "Ok") =>
             /\ pos = Len(input)
             /\ Segmented(SubSeq(result.val, 1, Len(result.val) - 1), input, 1))
    /\ [][pos' \in {pos, pos + 1}]_vars

\* "1 a}" has given Int, Function and ClosingBrace
C16_Witness ==
    /\ FirstReturn
    /\ input = <<"1", " ", "a", "}">>
    /\ result = Ok(<<TokenInt(I64(FALSE, <<1>>)), TokenFunction(<<"a">>),
                     TokenClosingBrace, TokenEOF>>)

-----------------------------------------------------------------------------

\* the first lexeme of s: its characters up to the end of s, ASCII
\* whitespace or '}'
FirstLexeme(s) == SubSeq(s, 1, FirstEnd(s, 1) - 1)

\* a literal of decimal digits whose value is at most 2^63-1
IntLiteral(s) == UnsignedIntegerText(s) /\ MagLeq(DecimalValue(s).mag, I64MaxMag)

\* C17: a number lexeme without '.' gives Int(v) exactly when the whole
\* literal, up to the end of the text, ASCII whitespace or '}', is decimal
\* digits with a value v of at most 2^63-1; otherwise the call fails with
\* InvalidNumber: no Int is split off the front of the literal, and the value
\* neither wraps nor saturates.
C17_IntLiteral ==
    /\ [][(/\ pc = "make_number"
           /\ ~has_dot
           /\ Peek = <<>> \/ EndsLexeme(Peek[1]))
          => IF IntLiteral(num_str)
             THEN /\ tokens' = Append(tokens, TokenInt(DecimalValue(num_str)))
                  /\ pc' = "tokenize"
                  /\ result' = NoResult
             ELSE result' = Err("InvalidNumber")]_vars
    /\ []((/\ FirstReturn
           /\ input # <<>>
           /\ StartsNumber(input[1])
           /\ DotCount(FirstLexeme(input)) = 0)
          => IF IntLiteral(FirstLexeme(input))
             THEN \/ /\ result.tag = "Ok"
                     /\ result.val[1] = TokenInt(DecimalValue(FirstLexeme(input)))
                  \/ /\ result.tag = "Err"
                     /\ FirstEnd(input, 1) <= Len(input)
             ELSE result = Err("InvalidNumber"))

\* 2^63 has failed with InvalidNumber
C17_Witness ==
    /\ FirstReturn
    /\ input = I64MinText
    /\ result = Err("InvalidNumber")

-----------------------------------------------------------------------------

\* the character that began the lexeme in progress
LexemeStart ==
    CASE pc = "make_number" -> input[pos - Len(num_str) + 1]
      [] pc = "make_string" -> input[pos - Len(str)]
      [] pc = "make_symbol" ->
            input[pos - Len(symbol_name) + (IF entry_char = <<>> THEN 0 ELSE 1)]

\* s has no ASCII whitespace and no '}'
OneLexeme(s) == \A i \in 1..Len(s) : ~EndsLexeme(s[i])

\* C18: the lexeme in progress decides the error.  A lexeme begun by a digit
\* or '.' fails with InvalidNumber only, one begun by an apostrophe or a
\* word character with InvalidSymbolName only, one begun by '"' with
\* UnterminatedString only, and between lexemes the only error is
\* InvalidToken; a '"' inside a number gives InvalidNumber.
C18_ErrorKindByLexeme ==
    /\ [](/\ pc = "make_number" => StartsNumber(LexemeStart)
          /\ pc = "make_symbol" => StartsSymbol(LexemeStart) \/ StartsWord(LexemeStart)
          /\ pc = "make_string" => LexemeStart = "\"")
    /\ [][Fails =>
            /\ pc = "make_number" => result' = Err("InvalidNumber")
            /\ pc = "make_symbol" => result' = Err("InvalidSymbolName")
            /\ pc = "make_string" => result' = Err("UnterminatedString")
            /\ pc = "tokenize" => result' = Err("InvalidToken")
            /\ pc # "idle"]_vars
    /\ []((FirstReturn /\ result.tag = "Err" /\ input # <<>> /\ OneLexeme(input)) =>
            /\ StartsNumber(input[1]) => result = Err("InvalidNumber")
            /\ (StartsSymbol(input[1]) \/ StartsWord(input[1]))
                   => result = Err("InvalidSymbolName")
            /\ input[1] \in NonAsciiChars => result = Err("InvalidToken"))
    /\ []((/\ FirstReturn
           /\ input # <<>>
           /\ input[1] = "\""
           /\ \A i \in 2..Len(input) : input[i] # "\"")
          => result = Err("UnterminatedString"))
    /\ []((/\ FirstReturn
           /\ input # <<>>
           /\ StartsNumber(input[1])
           /\ \E i \in 1..Len(FirstLexeme(input)) : input[i] = "\"")
          => result = Err("InvalidNumber"))

\* "1"a" has failed with InvalidNumber
C18_Witness ==
    /\ FirstReturn
    /\ input = <<"1", "\"", "a">>
    /\ result = Err("InvalidNumber")

-----------------------------------------------------------------------------

\* C19: a Lexer consumes its text once.  The cursor never moves back and a
\* new call does not move it; a call that returns Ok has read the whole
\* text; so every call after a successful one starts at the end of the text
\* with no tokens and returns exactly [EOF].
C19_ConsumedOnce ==
    /\ [][pos' >= pos]_vars
    /\ [](result.tag = "Ok" => pos = Len(input) /\ pc = "idle")
    /\ [][(result.tag = "Ok" /\ calls' # calls) =>
            /\ pc' = "tokenize"
            /\ pos' = Len(input)
            /\ tokens' = <<>>
            /\ result' = NoResult]_vars
    /\ [][(pc = "tokenize" /\ tokens = <<>> /\ pos = Len(input)) =>
            /\ pc' = "idle"
            /\ pos' = pos
            /\ result' = Ok(<<TokenEOF>>)]_vars

\* "a 1" has been scanned, and the second call has returned [EOF]
C19_Witness ==
    /\ input = <<"a", " ", "1">>
    /\ calls = 2
    /\ pc = "idle"
    /\ result = Ok(<<TokenEOF>>)

====
